---- MODULE Spec2Model ----
(***************************************************************************)
(* Image-asset service (aws-dummy-backend): key derivation (s3_client.py)  *)
(* and the request handlers of routers/images.py, run against a bucket     *)
(* (S3) and one table (images).                                            *)
(*                                                                         *)
(* Strings are sequences of one-character strings, payloads are sequences  *)
(* of byte values.  A handler is cut at its collaborator calls: each       *)
(* action is one S3 call or one database round trip together with the      *)
(* local code that precedes it, so that requests of different workers      *)
(* interleave exactly where the host can interleave them.                  *)
(*                                                                         *)
(* The column last_updated_at (db.py:55-60) is left out: it is assigned by *)
(* the server clock and no handler reads it to take a decision.            *)
(***************************************************************************)
EXTENDS Integers, Sequences, FiniteSets, TLC

VARIABLES
    db,       \* the rows of table images
    nextId,   \* the next value of the autoincrement primary key
    store,    \* the bucket: key -> bytes
    pc,       \* per worker: where its current request stands
    req,      \* per worker: the request it handles
    loc,      \* per worker: the handler's local variables
    result,   \* per worker: the response of its request
    fault,    \* the collaborator call that failed in the last step, "" if none
    faulted,  \* whether some collaborator call has failed so far
    hist,     \* sequential runs: the last successful write, nothing written since
    gone,     \* sequential runs: names deleted and not uploaded again
    arg,      \* key derivation alone: the string a function is called with
    out       \* key derivation alone: the function called and what it returned

vars == <<db, nextId, store, pc, req, loc, result, fault, faulted, hist, gone,
          arg, out>>

----------------------------------------------------------------------------
(* Bounds of the model *)

\* ids handed out by the autoincrement column: 1..MaxId
MaxId == 2
\* the concurrent workers
Procs == {1, 2}
\* the longest string a key derivation function is called with
MaxLen == 3

----------------------------------------------------------------------------
(* Characters and strings *)

Upper == <<"A","B","C","D","E","F","G","H","I","J","K","L","M",
           "N","O","P","Q","R","S","T","U","V","W","X","Y","Z">>
Lowers == <<"a","b","c","d","e","f","g","h","i","j","k","l","m",
            "n","o","p","q","r","s","t","u","v","w","x","y","z">>
Digits == <<"0","1","2","3","4","5","6","7","8","9">>

\* str.strip() with no argument strips whitespace
Whitespace == {" ", "\t", "\n", "\r", "\f"}

Range(s) == {s[i] : i \in DOMAIN s}

\* s3_client.py:24
allowed == Lowers \o Upper \o Digits \o <<"-", "_">>

LowerChar(ch) ==
    IF \E i \in DOMAIN Upper : Upper[i] = ch
    THEN Lowers[CHOOSE i \in DOMAIN Upper : Upper[i] = ch]
    ELSE ch

\* str.lower()
lower(s) == [i \in 1..Len(s) |-> LowerChar(s[i])]

RECURSIVE lstrip(_, _)
\* str.lstrip(chars): drops every leading character that is in chars
lstrip(s, chars) ==
    IF s # <<>> /\ Head(s) \in chars THEN lstrip(Tail(s), chars) ELSE s

RECURSIVE rstrip(_, _)
rstrip(s, chars) ==
    IF s # <<>> /\ s[Len(s)] \in chars
    THEN rstrip(SubSeq(s, 1, Len(s) - 1), chars)
    ELSE s

\* str.strip()
strip(s) == rstrip(lstrip(s, Whitespace), Whitespace)

----------------------------------------------------------------------------
(* Key derivation: s3_client.py.  A raised ValueError is the value         *)
(* [ok |-> FALSE, ...] carrying the message.                               *)

Ok(v) == [ok |-> TRUE, val |-> v, err |-> ""]
ValueError(msg) == [ok |-> FALSE, val |-> <<>>, err |-> msg]

AllowedChars == Range(allowed)

\* a filter that lets the dot through as well
IsAllowed_with_dot(ch) == ch \in AllowedChars \cup {"."}

IsAllowed(ch) == ch \in AllowedChars

sanitize_image_name(name) ==
    LET stripped == strip(name)
        cleaned  == SelectSeq(stripped, IsAllowed)
    IN  IF stripped = <<>> THEN ValueError("Image name must not be empty")
        ELSE IF cleaned = <<>>
             THEN ValueError("Image name contains no allowed characters")
             ELSE Ok(cleaned)

\* normalize_extension without .lower()
normalize_extension_keeps_case(ext) ==
    LET e == lstrip(strip(ext), {"."})
    IN  IF e = <<>> THEN ValueError("File extension is required") ELSE Ok(e)

\* normalize_extension removing one leading dot only
normalize_extension_one_dot(ext) ==
    LET t == lower(strip(ext))
        e == IF t # <<>> /\ Head(t) = "." THEN Tail(t) ELSE t
    IN  IF e = <<>> THEN ValueError("File extension is required") ELSE Ok(e)

normalize_extension(ext) ==
    LET e == lstrip(lower(strip(ext)), {"."})
    IN  IF e = <<>> THEN ValueError("File extension is required") ELSE Ok(e)

KeyPrefix == <<"i","m","a","g","e","s","/">>

generate_s3_key(name, extension) ==
    LET n == sanitize_image_name(name)
        e == normalize_extension(extension)
    IN  IF ~n.ok THEN n
        ELSE IF ~e.ok THEN e
        ELSE Ok(KeyPrefix \o n.val \o <<".">> \o e.val)

----------------------------------------------------------------------------
(* Values *)

\* db.py:45-60, class Image (a row of table images); NoRow is Python's None
Image(id, name, size_bytes, extension, s3_key) ==
    [id |-> id, name |-> name, size_bytes |-> size_bytes,
     extension |-> extension, s3_key |-> s3_key]
NoRow == Image(0, <<>>, 0, <<>>, <<>>)

NoMeta == [name |-> <<>>, size_bytes |-> 0, extension |-> <<>>]

Response(status, detail, body, meta, filename, deleted) ==
    [status |-> status, detail |-> detail, body |-> body, meta |-> meta,
     filename |-> filename, deleted |-> deleted]

\* no response yet
NoResp == Response(0, "", <<>>, NoMeta, <<>>, FALSE)

\* raise HTTPException(status_code=..., detail=...)
HTTPException(status, detail) ==
    Response(status, detail, <<>>, NoMeta, <<>>, FALSE)

\* an exception no handler catches leaves the handler: the host answers 500
Unhandled == HTTPException(500, "Internal Server Error")

\* routers/images.py:22-26; built at lines 58, 69 and 166
ImageMetadata(image) ==
    Response(200, "", <<>>,
             [name |-> image.name, size_bytes |-> image.size_bytes,
              extension |-> image.extension],
             <<>>, FALSE)

\* routers/images.py:29-31
DeleteResult(name) ==
    Response(200, "", <<>>, [NoMeta EXCEPT !.name = name], <<>>, TRUE)

\* routers/images.py:89-99: the body is read to its end in chunks
StreamingResponse(body, image) ==
    Response(200, "", body, NoMeta,
             image.name \o <<".">> \o image.extension, FALSE)

NoFile == [stem |-> <<>>, suffix |-> <<>>]
Request(op, name, file, data) ==
    [op |-> op, name |-> name, file |-> file, data |-> data]
NoReq == Request("none", <<>>, NoFile, <<>>)

NoLoc == [final_name |-> <<>>, extension |-> <<>>, key |-> <<>>,
          existing |-> NoRow, image |-> NoRow, total |-> 0, offset |-> 0]

NoHist == [req |-> NoReq, final_name |-> <<>>, existing |-> NoRow]

\* no function called yet
NoOut == [fn |-> "", extension |-> <<>>, res |-> Ok(<<>>)]

----------------------------------------------------------------------------
(* Inputs the requests are drawn from *)

\* form field "name" of POST /images; <<>> is the field left out
FormNames == { <<>>, <<"a">>, <<"a","!">>, <<" ","a">>, <<"!">> }

\* path parameter {name} of the GET and DELETE routes
PathNames == { <<"a">>, <<"a","!">>, <<" ","a">> }

\* Path(file.filename): its stem and its suffix (routers/images.py:108-112)
Files == { [stem |-> <<"a">>, suffix |-> <<".","P","N","G">>],
           [stem |-> <<"a">>, suffix |-> <<".","j","p","g">>],
           [stem |-> <<"a">>, suffix |-> <<>>] }

\* file contents
Payloads == { <<>>, <<1>>, <<2, 2>> }

\* the strings the key derivation functions are called with: every string of
\* at most MaxLen characters over a blank, a dot, a letter of each case, a
\* character that is not allowed and one of the two allowed signs
Alphabet == {" ", ".", "a", "B", "!", "_"}
Strings == UNION {[1..n -> Alphabet] : n \in 0..MaxLen}

\* the extensions generate_s3_key is called with
KeyExtensions == { <<"j","p","g">>, <<".","P","N","G">>, <<" ">> }

\* the inputs of the concurrent runs: valid uploads, one of them of a file
\* named "a. jpg", whose suffix holds a blank after its dot
ConcNames == { <<"a">> }
ConcPathNames == { <<"a">> }
ConcFiles == { f \in Files : f.suffix # <<>> }
             \cup { [stem |-> <<"a">>, suffix |-> <<"."," ","j","p","g">>] }
ConcPayloads == { d \in Payloads : d # <<>> }

----------------------------------------------------------------------------
(* The two collaborators *)

\* select(Image).where(Image.name == name) ... scalar_one_or_none()
SelectByName(name) ==
    IF \E r \in db : r.name = name
    THEN CHOOSE r \in db : r.name = name
    ELSE NoRow

\* the row with primary key id, as db.refresh reads it
SelectById(id) ==
    IF \E r \in db : r.id = id
    THEN CHOOSE r \in db : r.id = id
    ELSE NoRow

\* select(Image).order_by(Image.id).offset(offset).limit(1): the row that
\* has exactly `offset` rows of smaller id before it, NoRow when the result
\* is empty
OffsetLimit1(offset) ==
    LET at == {r \in db : Cardinality({q \in db : q.id < r.id}) = offset}
    IN  IF at = {} THEN NoRow ELSE CHOOSE r \in at : TRUE

\* client.upload_fileobj: a put overwrites by key (s3_client.py:64-73)
upload_image(key, data) ==
    [k \in (DOMAIN store) \cup {key} |-> IF k = key THEN data ELSE store[k]]

\* client.delete_object: deleting a missing key succeeds (s3_client.py:85-88)
delete_image(key) ==
    [k \in (DOMAIN store) \ {key} |-> store[k]]

\* a collaborator call may fail (an exception of boto3 or of the database
\* driver); faulted remembers that one did
Fails(fail, call) ==
    /\ fault' = IF fail THEN call ELSE ""
    /\ faulted' = (faulted \/ fail)

\* the request of worker p ends with response r
Respond(p, r) ==
    /\ result' = [result EXCEPT ![p] = r]
    /\ pc' = [pc EXCEPT ![p] = "done"]

InUpload(q) == pc[q] \in {"upload_select", "upload_commit"}

----------------------------------------------------------------------------
\* the service starts with an empty table and an empty bucket
InitService ==
    /\ db = {}
    /\ nextId = 1
    /\ store = [k \in {} |-> <<>>]
    /\ pc = [p \in Procs |-> "idle"]
    /\ req = [p \in Procs |-> NoReq]
    /\ loc = [p \in Procs |-> NoLoc]
    /\ result = [p \in Procs |-> NoResp]
    /\ fault = ""
    /\ faulted = FALSE
    /\ hist = NoHist
    /\ gone = {}

Init ==
    /\ InitService
    /\ arg = <<>>
    /\ out = NoOut

----------------------------------------------------------------------------
(* POST /images: upload, routers/images.py:102-171 *)

\* the except clause swallowing the error: the handler goes on
upload_image_raises_ignored(p) ==
    /\ pc' = [pc EXCEPT ![p] = "upload_select"]
    /\ UNCHANGED <<store, result>>

\* lines 138-139: the put raised
upload_image_raises(p) ==
    /\ Respond(p, HTTPException(502, "Failed to upload to S3"))
    /\ UNCHANGED store

\* an upload that accepts an empty file
size_bytes_zero_accepted(data) == FALSE

\* lines 130-131: size_bytes == 0
size_bytes_zero(data) == Len(data) = 0

\* lines 108-139: validation of the request, then the put to the bucket
upload_put(p, name, file, data, fail) ==
    LET ext        == normalize_extension(file.suffix)
        final_name == strip(IF name # <<>> THEN name ELSE file.stem)
        key        == generate_s3_key(final_name, ext.val)
        bad(r)     == /\ Respond(p, r)
                      /\ loc' = [loc EXCEPT ![p] = NoLoc]
                      /\ UNCHANGED <<store, faulted>>
                      /\ fault' = ""
    IN  /\ pc[p] = "idle"
        /\ nextId + Cardinality({q \in Procs : InUpload(q)}) <= MaxId
        /\ req' = [req EXCEPT ![p] = Request("upload", name, file, data)]
        /\ UNCHANGED <<db, nextId>>
        /\ IF ~ext.ok THEN ~fail /\ bad(HTTPException(400, ext.err))
           ELSE IF final_name = <<>>
           THEN ~fail /\ bad(HTTPException(400, "Image name is required"))
           ELSE IF ~key.ok THEN ~fail /\ bad(HTTPException(400, key.err))
           ELSE IF size_bytes_zero(data)
           THEN ~fail /\ bad(HTTPException(400, "Uploaded file is empty"))
           ELSE /\ Fails(fail, "upload_image")
                /\ loc' = [loc EXCEPT ![p] =
                             [NoLoc EXCEPT !.final_name = final_name,
                                           !.extension = ext.val,
                                           !.key = key.val]]
                /\ IF fail
                   THEN upload_image_raises(p)
                   ELSE /\ store' = upload_image(key.val, data)
                        /\ pc' = [pc EXCEPT ![p] = "upload_select"]
                        /\ result' = [result EXCEPT ![p] = NoResp]

\* line 142: existing = select by name
upload_select(p, fail) ==
    /\ pc[p] = "upload_select"
    /\ Fails(fail, "select")
    /\ UNCHANGED <<db, nextId, store, req>>
    /\ IF fail
       THEN /\ Respond(p, Unhandled)
            /\ UNCHANGED loc
       ELSE /\ loc' = [loc EXCEPT ![p].existing = SelectByName(loc[p].final_name)]
            /\ pc' = [pc EXCEPT ![p] = "upload_commit"]
            /\ UNCHANGED result

\* an update that leaves s3_key as it was
Changed_without_key(old, new) ==
    {c \in {"size_bytes", "extension"} : old[c] # new[c]}

\* The columns of the UPDATE: the unit of work writes the attributes whose
\* value differs from the one loaded (lines 144-148)
Changed(old, new) ==
    {c \in {"size_bytes", "extension", "s3_key"} : old[c] # new[c]}

\* a handler that swallows the error of the commit and answers as if stored
commit_raises_ignored(p) ==
    /\ Respond(p, ImageMetadata(Image(0, loc[p].final_name, Len(req[p].data),
                                     loc[p].extension, loc[p].key)))
    /\ UNCHANGED <<db, loc>>

\* lines 148 and 160: the commit raised an error the handler does not catch
\* (a failing database, or StaleDataError when the UPDATE matched no row);
\* the session is rolled back when it is closed
commit_raises(p) ==
    /\ Respond(p, Unhandled)
    /\ UNCHANGED <<db, loc>>

\* lines 143-163: update the row found, or insert a new one; commit
upload_commit(p, fail) ==
    LET l   == loc[p]
        new == Image(l.existing.id, l.final_name, Len(req[p].data),
                     l.extension, l.key)
        cols == Changed(l.existing, new)
        cur == SelectById(l.existing.id)
        ins == [new EXCEPT !.id = nextId]
    IN  /\ pc[p] = "upload_commit"
        /\ Fails(fail, "commit")
        /\ UNCHANGED <<store, req>>
        /\ IF l.existing # NoRow
           THEN /\ UNCHANGED nextId
                /\ IF fail
                   THEN commit_raises(p)
                   ELSE IF cols = {}
                   \* nothing to flush: the commit carries no UPDATE
                   THEN /\ UNCHANGED <<db, result>>
                        /\ loc' = [loc EXCEPT ![p].image = l.existing]
                        /\ pc' = [pc EXCEPT ![p] = "upload_refresh"]
                   ELSE IF cur = NoRow
                   \* StaleDataError: the UPDATE matched no row
                   THEN commit_raises(p)
                   ELSE /\ db' = (db \ {cur}) \cup
                                 {[c \in DOMAIN cur |->
                                     IF c \in cols THEN new[c] ELSE cur[c]]}
                        /\ loc' = [loc EXCEPT ![p].image = l.existing]
                        /\ pc' = [pc EXCEPT ![p] = "upload_refresh"]
                        /\ UNCHANGED result
           ELSE IF fail
           THEN commit_raises(p) /\ UNCHANGED nextId
           ELSE IF \E r \in db : r.name = l.final_name
           \* IntegrityError on the unique name (db.py:50): rollback, 409
           THEN /\ Respond(p, HTTPException(409, "Image name already exists"))
                /\ nextId' = nextId + 1
                /\ UNCHANGED <<db, loc>>
           ELSE /\ db' = db \cup {ins}
                /\ nextId' = nextId + 1
                /\ loc' = [loc EXCEPT ![p].image = ins]
                /\ pc' = [pc EXCEPT ![p] = "upload_refresh"]
                /\ UNCHANGED result

\* lines 149/164 and 166-171: db.refresh(image), then the metadata answer
upload_refresh(p, fail) ==
    LET cur == SelectById(loc[p].image.id)
    IN  /\ pc[p] = "upload_refresh"
        /\ Fails(fail, "refresh")
        /\ UNCHANGED <<db, nextId, store, req>>
        /\ IF fail \/ cur = NoRow
           THEN /\ Respond(p, Unhandled)
                /\ UNCHANGED loc
           ELSE /\ Respond(p, ImageMetadata(cur))
                /\ loc' = [loc EXCEPT ![p].image = cur]

----------------------------------------------------------------------------
(* Lookups by name: routers/images.py:39-43 *)

\* _get_by_name at the head of a handler: the row goes to the local `image`
\* and the handler goes on at `then`; no row is 404
_get_by_name(p, op, name, then, fail) ==
    LET image == SelectByName(name)
    IN  /\ pc[p] = "idle"
        /\ Fails(fail, "select")
        /\ req' = [req EXCEPT ![p] = Request(op, name, NoFile, <<>>)]
        /\ UNCHANGED <<db, nextId, store>>
        /\ IF fail
           THEN /\ Respond(p, Unhandled)
                /\ loc' = [loc EXCEPT ![p] = NoLoc]
           ELSE IF image = NoRow
           THEN /\ Respond(p, HTTPException(404, "Image not found"))
                /\ loc' = [loc EXCEPT ![p] = NoLoc]
           ELSE /\ loc' = [loc EXCEPT ![p] = [NoLoc EXCEPT !.image = image]]
                /\ pc' = [pc EXCEPT ![p] = then]
                /\ result' = [result EXCEPT ![p] = NoResp]

----------------------------------------------------------------------------
(* GET /images/{name}/metadata: routers/images.py:66-74 *)

get_metadata(p, name, fail) ==
    LET image == SelectByName(name)
    IN  /\ pc[p] = "idle"
        /\ Fails(fail, "select")
        /\ req' = [req EXCEPT ![p] = Request("get_metadata", name, NoFile, <<>>)]
        /\ UNCHANGED <<db, nextId, store>>
        /\ IF fail
           THEN /\ Respond(p, Unhandled)
                /\ loc' = [loc EXCEPT ![p] = NoLoc]
           ELSE IF image = NoRow
           THEN /\ Respond(p, HTTPException(404, "Image not found"))
                /\ loc' = [loc EXCEPT ![p] = NoLoc]
           ELSE /\ Respond(p, ImageMetadata(image))
                /\ loc' = [loc EXCEPT ![p] = [NoLoc EXCEPT !.image = image]]

----------------------------------------------------------------------------
(* GET /images/random/metadata: get_random_metadata, routers/images.py:46-63 *)

\* a generator that always draws 0
randrange_first(total) == {0}

\* random.randrange(total): the values it can return
randrange(total) == 0 .. (total - 1)

\* lines 48-50: the count query
get_random_count(p, fail) ==
    LET total == Cardinality(db)
    IN  /\ pc[p] = "idle"
        /\ Fails(fail, "select")
        /\ req' = [req EXCEPT ![p] = Request("get_random", <<>>, NoFile, <<>>)]
        /\ UNCHANGED <<db, nextId, store>>
        /\ IF fail
           THEN /\ Respond(p, Unhandled)
                /\ loc' = [loc EXCEPT ![p] = NoLoc]
           ELSE IF total = 0
           THEN /\ Respond(p, HTTPException(404, "No images available"))
                /\ loc' = [loc EXCEPT ![p] = NoLoc]
           ELSE /\ loc' = [loc EXCEPT ![p] = [NoLoc EXCEPT !.total = total]]
                /\ pc' = [pc EXCEPT ![p] = "random_fetch"]
                /\ result' = [result EXCEPT ![p] = NoResp]

\* lines 52-63: the offset is drawn, the row at that offset is fetched;
\* scalar_one() raises NoResultFound when the query returns no row, and no
\* handler catches it
get_random_fetch(p, fail) ==
    \E offset \in randrange(loc[p].total) :
        LET image == OffsetLimit1(offset)
        IN  /\ pc[p] = "random_fetch"
            /\ Fails(fail, "select")
            /\ UNCHANGED <<db, nextId, store, req>>
            /\ IF fail \/ image = NoRow
               THEN /\ Respond(p, Unhandled)
                    /\ loc' = [loc EXCEPT ![p].offset = offset]
               ELSE /\ Respond(p, ImageMetadata(image))
                    /\ loc' = [loc EXCEPT ![p].offset = offset,
                                          ![p].image = image]

----------------------------------------------------------------------------
(* GET /images/{name}: download_by_name, routers/images.py:77-99 *)

\* line 79
download_lookup(p, name, fail) ==
    _get_by_name(p, "download", name, "download_get", fail)

\* a download that answers an empty body when the blob is missing
download_get_empty(p, fail) ==
    LET image == loc[p].image
    IN  /\ pc[p] = "download_get"
        /\ Fails(fail, "download_image")
        /\ UNCHANGED <<db, nextId, store, req, loc>>
        /\ IF fail
           THEN Respond(p, HTTPException(502, "Failed to download from S3"))
           ELSE IF image.s3_key \notin DOMAIN store
           THEN Respond(p, StreamingResponse(<<>>, image))
           ELSE Respond(p, StreamingResponse(store[image.s3_key], image))

\* lines 81-99: get_object raises when the key is missing (NoSuchKey)
download_get(p, fail) ==
    LET image == loc[p].image
    IN  /\ pc[p] = "download_get"
        /\ Fails(fail, "download_image")
        /\ UNCHANGED <<db, nextId, store, req, loc>>
        /\ IF fail \/ image.s3_key \notin DOMAIN store
           THEN Respond(p, HTTPException(502, "Failed to download from S3"))
           ELSE Respond(p, StreamingResponse(store[image.s3_key], image))

----------------------------------------------------------------------------
(* DELETE /images/{name}: delete_by_name, routers/images.py:174-185 *)

\* line 176
delete_lookup(p, name, fail) ==
    _get_by_name(p, "delete", name, "delete_blob", fail)

\* the except clause swallowing the error: the row is deleted all the same
delete_image_raises_ignored(p) ==
    /\ pc' = [pc EXCEPT ![p] = "delete_row"]
    /\ UNCHANGED <<store, result>>

\* lines 180-181: the delete of the blob raised
delete_image_raises(p) ==
    /\ Respond(p, HTTPException(502, "Failed to delete from S3"))
    /\ UNCHANGED store

\* lines 178-181
delete_blob(p, fail) ==
    /\ pc[p] = "delete_blob"
    /\ Fails(fail, "delete_image")
    /\ UNCHANGED <<db, nextId, req, loc>>
    /\ IF fail
       THEN delete_image_raises(p)
       ELSE /\ store' = delete_image(loc[p].image.s3_key)
            /\ pc' = [pc EXCEPT ![p] = "delete_row"]
            /\ UNCHANGED result

\* a delete_by_name that answers without deleting the row
delete_row_keeps_row(p, fail) ==
    /\ pc[p] = "delete_row"
    /\ Fails(fail, "commit")
    /\ UNCHANGED <<db, nextId, store, req, loc>>
    /\ IF fail THEN Respond(p, Unhandled)
               ELSE Respond(p, DeleteResult(req[p].name))

\* lines 183-185: DELETE by primary key and commit; a DELETE that matches no
\* row is a warning of the unit of work, not an error
delete_row(p, fail) ==
    /\ pc[p] = "delete_row"
    /\ Fails(fail, "commit")
    /\ UNCHANGED <<nextId, store, req, loc>>
    /\ IF fail
       THEN /\ Respond(p, Unhandled)
            /\ UNCHANGED db
       ELSE /\ db' = {r \in db : r.id # loc[p].image.id}
            /\ Respond(p, DeleteResult(req[p].name))

----------------------------------------------------------------------------
(* The response leaves the worker and get_db closes the session            *)
(* (db.py:74-83); the worker is free for the next request.                 *)

get_db_close(p) ==
    /\ pc[p] = "done"
    /\ pc' = [pc EXCEPT ![p] = "idle"]
    /\ req' = [req EXCEPT ![p] = NoReq]
    /\ loc' = [loc EXCEPT ![p] = NoLoc]
    /\ result' = [result EXCEPT ![p] = NoResp]
    /\ fault' = ""
    /\ UNCHANGED <<db, nextId, store, faulted>>

----------------------------------------------------------------------------
(* Specifications *)

\* Concurrent requests: the workers interleave at their collaborator calls,
\* and no collaborator call fails
Next ==
    \E p \in Procs :
        \/ (\E name \in ConcNames, file \in ConcFiles, data \in ConcPayloads, fail \in {FALSE} :
              upload_put(p, name, file, data, fail))
              /\ UNCHANGED <<hist, gone, arg, out>>
        \/ (\E fail \in {FALSE} : upload_select(p, fail))
              /\ UNCHANGED <<hist, gone, arg, out>>
        \/ (\E fail \in {FALSE} : upload_commit(p, fail))
              /\ UNCHANGED <<hist, gone, arg, out>>
        \/ (\E fail \in {FALSE} : upload_refresh(p, fail))
              /\ UNCHANGED <<hist, gone, arg, out>>
        \/ (\E name \in ConcPathNames, fail \in {FALSE} : get_metadata(p, name, fail))
              /\ UNCHANGED <<hist, gone, arg, out>>
        \/ (\E fail \in {FALSE} : get_random_count(p, fail))
              /\ UNCHANGED <<hist, gone, arg, out>>
        \/ (\E fail \in {FALSE} : get_random_fetch(p, fail))
              /\ UNCHANGED <<hist, gone, arg, out>>
        \/ (\E name \in ConcPathNames, fail \in {FALSE} : download_lookup(p, name, fail))
              /\ UNCHANGED <<hist, gone, arg, out>>
        \/ (\E fail \in {FALSE} : download_get(p, fail))
              /\ UNCHANGED <<hist, gone, arg, out>>
        \/ (\E name \in ConcPathNames, fail \in {FALSE} : delete_lookup(p, name, fail))
              /\ UNCHANGED <<hist, gone, arg, out>>
        \/ (\E fail \in {FALSE} : delete_blob(p, fail))
              /\ UNCHANGED <<hist, gone, arg, out>>
        \/ (\E fail \in {FALSE} : delete_row(p, fail))
              /\ UNCHANGED <<hist, gone, arg, out>>
        \/ get_db_close(p) /\ UNCHANGED <<hist, gone, arg, out>>

Spec == Init /\ [][Next]_vars

\* hist: the last write request (upload, delete) that succeeded, as long as
\* neither store has changed since
HistNext ==
    hist' = IF pc[1] \in {"upload_refresh", "delete_row"} /\ result'[1].status = 200
            THEN [req |-> req[1], final_name |-> loc'[1].final_name,
                  existing |-> loc'[1].existing]
            ELSE IF db' # db \/ store' # store THEN NoHist ELSE hist

\* gone: the names deleted with success and not uploaded again since
GoneNext ==
    gone' = IF pc[1] = "delete_row" /\ result'[1].status = 200
            THEN gone \cup {req[1].name}
            ELSE IF pc[1] = "idle" /\ req'[1].op = "upload"
            THEN gone \ {strip(IF req'[1].name # <<>> THEN req'[1].name
                                ELSE req'[1].file.stem)}
            ELSE gone

Ghosts == HistNext /\ GoneNext /\ UNCHANGED <<arg, out>>

\* One request at a time: worker 1 alone runs each request to its answer
\* before the next begins; any collaborator call may fail
NextSeq ==
    \/ (\E name \in FormNames, file \in Files, data \in Payloads, fail \in BOOLEAN :
          upload_put(1, name, file, data, fail))
          /\ Ghosts
    \/ (\E fail \in BOOLEAN : upload_select(1, fail))
          /\ Ghosts
    \/ (\E fail \in BOOLEAN : upload_commit(1, fail))
          /\ Ghosts
    \/ (\E fail \in BOOLEAN : upload_refresh(1, fail))
          /\ Ghosts
    \/ (\E name \in PathNames, fail \in BOOLEAN : get_metadata(1, name, fail))
          /\ Ghosts
    \/ (\E fail \in BOOLEAN : get_random_count(1, fail))
          /\ Ghosts
    \/ (\E fail \in BOOLEAN : get_random_fetch(1, fail))
          /\ Ghosts
    \/ (\E name \in PathNames, fail \in BOOLEAN : download_lookup(1, name, fail))
          /\ Ghosts
    \/ (\E fail \in BOOLEAN : download_get(1, fail))
          /\ Ghosts
    \/ (\E name \in PathNames, fail \in BOOLEAN : delete_lookup(1, name, fail))
          /\ Ghosts
    \/ (\E fail \in BOOLEAN : delete_blob(1, fail))
          /\ Ghosts
    \/ (\E fail \in BOOLEAN : delete_row(1, fail))
          /\ Ghosts
    \/ get_db_close(1) /\ UNCHANGED <<hist, gone, arg, out>>

SpecSeq == Init /\ [][NextSeq]_vars

\* Key derivation alone (s3_client.py:15-41): a function is called once with
\* a string, the service standing still
InitKey ==
    /\ InitService
    /\ arg \in Strings
    /\ out = NoOut

\* the service state, which a call of a key derivation function leaves alone
service == <<db, nextId, store, pc, req, loc, result, fault, faulted,
             hist, gone>>

Returns(fn, extension, res) ==
    [fn |-> fn, extension |-> extension, res |-> res]

call_sanitize_image_name ==
    /\ out = NoOut
    /\ out' = Returns("sanitize_image_name", <<>>, sanitize_image_name(arg))
    /\ UNCHANGED <<service, arg>>

call_normalize_extension ==
    /\ out = NoOut
    /\ out' = Returns("normalize_extension", <<>>, normalize_extension(arg))
    /\ UNCHANGED <<service, arg>>

call_generate_s3_key(extension) ==
    /\ out = NoOut
    /\ out' = Returns("generate_s3_key", extension,
                      generate_s3_key(arg, extension))
    /\ UNCHANGED <<service, arg>>

NextKey ==
    \/ call_sanitize_image_name
    \/ call_normalize_extension
    \/ \E extension \in KeyExtensions : call_generate_s3_key(extension)

SpecKey == InitKey /\ [][NextKey]_vars

----------------------------------------------------------------------------
(* Vocabulary of the properties *)

\* the records named n
Named(n) == {r \in db : r.name = n}

\* A valid name: one the upload keeps as the record's name (line 116: not
\* blank, no surrounding whitespace) and from which a key can be derived
ValidName(n) == n # <<>> /\ strip(n) = n /\ sanitize_image_name(n).ok

\* The normal form of an extension as section 4.1 words it: trimmed,
\* lowercased, one leading dot removed
NormalForm(e) ==
    LET t == lower(strip(e))
    IN  IF t # <<>> /\ Head(t) = "." THEN Tail(t) ELSE t

\* the lone worker has answered a request of kind op
Answered(op) == pc[1] = "done" /\ req[1].op = op

\* the last write, with nothing written since, was a successful upload
AfterUpload == hist.req.op = "upload"

----------------------------------------------------------------------------
(* Properties of sequential runs (SpecSeq) *)

C3_GoneAfterDelete ==
    (/\ pc[1] = "done"
     /\ req[1].op \in {"get_metadata", "download"}
     /\ req[1].name \in gone
     /\ fault = "")
    => result[1] = HTTPException(404, "Image not found")

\* C3 witness: a download of a deleted name some time after the delete, other
\* names having been uploaded since
C3_Witness ==
    /\ Answered("download")
    /\ req[1].name \in gone
    /\ db # {}
    /\ hist.req.op = "upload"
    /\ result[1].status = 404

\* C4 as claimed: with no request in flight and no collaborator failure, a
\* blob exists under key k if and only if some record has storage_key k.
C4_BlobIffRecord ==
    (pc[1] \in {"idle", "done"} /\ ~faulted)
    => \A k \in (DOMAIN store) \cup {r.s3_key : r \in db} :
          (k \in DOMAIN store) <=> (\E r \in db : r.s3_key = k)

\* C5 as claimed: no two distinct records have the same storage_key.
C5_UniqueStorageKey ==
    ~faulted =>
       \A r1, r2 \in db : r1 # r2 => r1.s3_key # r2.s3_key

\* C6: when the put of an Upload to the bucket fails, the request ends there
\* with 502 "Failed to upload to S3" and the table is as it was.
C6_PutFailureLeavesRecords ==
    [][(pc[1] = "idle" /\ fault' = "upload_image")
       => /\ pc'[1] = "done"
          /\ result'[1] = HTTPException(502, "Failed to upload to S3")
          /\ db' = db
          /\ nextId' = nextId]_vars

\* C6 witness: the put failed for a name that has a record
C6_Witness ==
    /\ Answered("upload")
    /\ fault = "upload_image"
    /\ result[1].status = 502
    /\ Named(loc[1].final_name) # {}

\* C7: delete ordering. The blob is deleted while the record is still there;
\* when the blob deletion fails the request ends with 502 "Failed to delete
\* from S3" and the table is as it was; and a row leaves the table only in
\* the last step of a delete of that row, its blob already deleted.
C7_DeleteOrdering ==
    [][/\ (pc[1] = "delete_blob" /\ fault' = "delete_image")
          => /\ pc'[1] = "done"
             /\ result'[1] = HTTPException(502, "Failed to delete from S3")
             /\ db' = db
       /\ (pc[1] = "delete_blob" /\ pc'[1] = "delete_row")
          => /\ db' = db
             /\ loc[1].image \in db
             /\ loc[1].image.s3_key \notin DOMAIN store'
       /\ \A r \in db :
             (\A r2 \in db' : r2.id # r.id)
             => /\ pc[1] = "delete_row"
                /\ loc[1].image.id = r.id
                /\ loc[1].image.s3_key \notin DOMAIN store]_vars

\* C7 witness: the blob deletion failed and the record is still there
C7_Witness ==
    /\ Answered("delete")
    /\ fault = "delete_image"
    /\ result[1].status = 502
    /\ Named(req[1].name) # {}
    /\ \A r \in Named(req[1].name) : r.s3_key \in DOMAIN store

\* C9: when the commit of an Upload (insert or update) fails after the put,
\* the failure leaves the handler (the request is answered 500), the blob
\* of the request stays in the bucket and the table is as it was.
C9_RecordWriteFailure ==
    [][(pc[1] = "upload_commit" /\ fault' = "commit")
       => /\ pc'[1] = "done"
          /\ result'[1] = Unhandled
          /\ db' = db
          /\ store' = store
          /\ loc[1].key \in DOMAIN store
          /\ store[loc[1].key] = req[1].data]_vars

\* C9 witness: the insert failed; the blob is there and no record points to it
C9_Witness ==
    /\ Answered("upload")
    /\ fault = "commit"
    /\ result[1].status = 500
    /\ loc[1].existing = NoRow
    /\ loc[1].key \in DOMAIN store
    /\ \A r \in db : r.s3_key # loc[1].key

\* C10: a Download whose record exists while its blob is missing answers
\* 502 "Failed to download from S3"; no Download answers 200 with an empty
\* body.
C10_MissingBlob ==
    Answered("download")
    => /\ (loc[1].image # NoRow /\ loc[1].image.s3_key \notin DOMAIN store)
          => result[1] = HTTPException(502, "Failed to download from S3")
       /\ result[1].status = 200 => result[1].body # <<>>

\* C10 witness: without any failure, a record whose blob is missing (the
\* blob went with the delete of another name of the same key) is downloaded
C10_Witness ==
    /\ Answered("download")
    /\ ~faulted
    /\ loc[1].image # NoRow
    /\ loc[1].image.s3_key \notin DOMAIN store
    /\ result[1].status = 502

\* C11: GetRandomMetadata with no concurrent writer. When its queries do not
\* fail it answers 404 "No images available" on an empty table; otherwise it
\* answers 200 with the metadata of the record at the drawn offset, an offset
\* in [0, count) under ordering by id (so the single record when there is
\* exactly one); and before the fetch every record of the table is a
\* possible answer.
C11_RandomSequential ==
    /\ (Answered("get_random") /\ fault = "")
       => IF db = {}
          THEN result[1] = HTTPException(404, "No images available")
          ELSE /\ loc[1].offset \in 0 .. (Cardinality(db) - 1)
               /\ OffsetLimit1(loc[1].offset) \in db
               /\ result[1] = ImageMetadata(OffsetLimit1(loc[1].offset))
               /\ Cardinality(db) = 1
                  => \A r \in db : result[1] = ImageMetadata(r)
    /\ pc[1] = "random_fetch"
       => \A r \in db :
             ENABLED (/\ get_random_fetch(1, FALSE)
                      /\ UNCHANGED <<hist, gone, arg, out>>
                      /\ result'[1] = ImageMetadata(r)
                      /\ loc'[1].image = r)

\* C11 witness: with two records in the table, the one of the larger id was
\* drawn
C11_Witness ==
    /\ Answered("get_random")
    /\ fault = ""
    /\ Cardinality(db) = 2
    /\ loc[1].offset = 1
    /\ result[1].status = 200
    /\ \A r \in db : r.id <= loc[1].image.id

\* C14 as claimed: payload validation comes first. An Upload whose bytes are
\* empty is answered 400 "Uploaded file is empty" whatever its name and its
\* extension are, and leaves the bucket and the table as they were.
C14_PayloadFirst ==
    [][(pc[1] = "idle" /\ req'[1].op = "upload" /\ req'[1].data = <<>>)
       => /\ pc'[1] = "done"
          /\ result'[1] = HTTPException(400, "Uploaded file is empty")
          /\ db' = db
          /\ store' = store]_vars

\* C14, amended: an Upload whose bytes are empty is answered 400 and leaves
\* the bucket and the table as they were; the extension and the name are
\* validated before the payload, so the answer is "Uploaded file is empty"
\* exactly when the extension and the name are valid, and the failure of
\* the extension or of the name otherwise.
C14_EmptyPayloadRejected ==
    [][(pc[1] = "idle" /\ req'[1].op = "upload" /\ req'[1].data = <<>>)
       => LET r    == req'[1]
              ext  == normalize_extension(r.file.suffix)
              name == sanitize_image_name(IF r.name # <<>> THEN r.name
                                          ELSE r.file.stem)
          IN  /\ pc'[1] = "done"
              /\ result'[1].status = 400
              /\ db' = db
              /\ nextId' = nextId
              /\ store' = store
              /\ ~ext.ok => result'[1].detail = ext.err
              /\ (ext.ok /\ ~name.ok)
                 => result'[1].detail \in {"Image name is required", name.err}
              /\ (ext.ok /\ name.ok)
                 => result'[1].detail = "Uploaded file is empty"]_vars

\* C14 witness: an empty file without an extension was uploaded, the table
\* and the bucket holding an asset
C14_Witness ==
    /\ Answered("upload")
    /\ req[1].data = <<>>
    /\ req[1].file.suffix = <<>>
    /\ result[1] = HTTPException(400, "File extension is required")
    /\ db # {}
    /\ DOMAIN store # {}

\* C16 as claimed: isolation between names. In a failure-free sequential
\* run (where every Upload that writes and every Delete that writes ends
\* with success), no step of a request on name m changes, for a recorded
\* name n other than m, the record of n or the blob a Download(n) reads.
C16_Isolation ==
    [][~faulted' =>
         LET m == IF req'[1].op = "upload" THEN loc'[1].final_name
                                           ELSE req'[1].name
         IN  \A n \in {r.name : r \in db} \ {m} :
                \A r \in Named(n) :
                   /\ r \in db'
                   /\ r.s3_key \in DOMAIN store
                      => /\ r.s3_key \in DOMAIN store'
                         /\ store'[r.s3_key] = store[r.s3_key]]_vars

----------------------------------------------------------------------------
(* Properties of key derivation (SpecKey) *)

\* the character class [A-Za-z0-9_-]
NameChars == Range(Upper) \cup Range(Lowers) \cup Range(Digits) \cup {"_", "-"}

\* the positions of string t that hold a character of the class
Kept(t) == {i \in DOMAIN t : t[i] \in NameChars}

\* the two failures of sanitize_image_name, both InvalidName
InvalidName == { ValueError("Image name must not be empty"),
                 ValueError("Image name contains no allowed characters") }

\* C12: name sanitization. For every name, sanitize_image_name returns the
\* characters of the trimmed name that belong to [A-Za-z0-9_-], in their
\* order; it fails, with InvalidName, exactly when the trimmed name is empty
\* or holds no character of the class; and generate_s3_key fails the same
\* way on such a name.
C12_Sanitize ==
    LET t == strip(arg)
        v == out.res.val
    IN  /\ out.fn = "sanitize_image_name"
           => /\ out.res.ok <=> Kept(t) # {}
              /\ ~out.res.ok => out.res \in InvalidName
              /\ t = <<>> => out.res = ValueError("Image name must not be empty")
              /\ out.res.ok
                 => /\ Len(v) = Cardinality(Kept(t))
                    /\ \A i \in Kept(t) :
                          v[Cardinality({j \in Kept(t) : j <= i})] = t[i]
        /\ (out.fn = "generate_s3_key" /\ Kept(t) = {})
           => out.res \in InvalidName

\* C12 witness: a name with a disallowed character between two allowed ones
C12_Witness ==
    /\ out.fn = "sanitize_image_name"
    /\ arg = <<"a", "!", "B">>
    /\ out.res = Ok(<<"a", "B">>)

\* the number of dots string t begins with
LeadingDots(t) ==
    Cardinality({n \in 1..Len(t) : \A i \in 1..n : t[i] = "."})

\* C13 as claimed: the normalized extension is the input trimmed, lowercased
\* and with a single leading dot removed, and normalization fails exactly
\* when that result is empty.
C13_SingleLeadingDot ==
    out.fn = "normalize_extension"
    => out.res = IF NormalForm(arg) = <<>>
                 THEN ValueError("File extension is required")
                 ELSE Ok(NormalForm(arg))

\* C13, amended: the normalized extension is the input trimmed, lowercased
\* and with all of its leading dots removed ("..png" gives "png"), and
\* normalization fails exactly when that result is empty.
C13_AllLeadingDots ==
    LET t == lower(strip(arg))
        e == SubSeq(t, LeadingDots(t) + 1, Len(t))
    IN  out.fn = "normalize_extension"
        => out.res = IF e = <<>>
                     THEN ValueError("File extension is required")
                     ELSE Ok(e)

\* C13 witness: an extension that begins with two dots
C13_Witness ==
    /\ out.fn = "normalize_extension"
    /\ arg = <<".", ".", "B">>
    /\ out.res = Ok(<<"b">>)

----------------------------------------------------------------------------
(* Properties of concurrent runs (Spec) *)

\* C8 as claimed: an Upload that ends with 409 on its insert leaves the
\* table as it was, and the blob it wrote is in the bucket with no record
\* referencing its key.
C8_ConflictLeavesOrphan ==
    [][\A p \in Procs :
          (pc[p] = "upload_commit" /\ pc'[p] = "done" /\ result'[p].status = 409)
          => /\ db' = db
             /\ loc[p].key \in DOMAIN store'
             /\ store'[loc[p].key] = req[p].data
             /\ \A r \in db' : r.s3_key # loc[p].key]_vars

\* C15 as claimed: in every reachable state every record r satisfies
\* r.s3_key = "images/" + sanitize(r.name) + "." + r.extension.
C15_KeyForm ==
    \A r \in db :
       r.s3_key = KeyPrefix \o sanitize_image_name(r.name).val
                            \o <<".">> \o r.extension

\* every request begun has been answered
Quiescent == \A p \in Procs : pc[p] \in {"idle", "done"}

\* C17 as claimed: no collaborator call failing, once the concurrent Uploads
\* and Deletes of a name have all been answered, the key of every record
\* has a blob in the bucket.
C17_NoDanglingRecord ==
    Quiescent => \A r \in db : r.s3_key \in DOMAIN store

\* C18 as claimed: no collaborator call failing, once the concurrent Uploads
\* of a name have all been answered, the size_bytes of its record is the
\* length of the blob under the record's key.
C18_SizeConsistent ==
    Quiescent
    => \A r \in db :
          r.s3_key \in DOMAIN store => r.size_bytes = Len(store[r.s3_key])

\* C19 as claimed: with writers running concurrently (a Delete may commit
\* between the count and the fetch), GetRandomMetadata ends either with the
\* metadata of a record that is in the table when it is fetched, or with
\* 404; it never ends with another failure.
C19_RandomConcurrent ==
    [][\A p \in Procs :
          (req'[p].op = "get_random" /\ pc[p] # "done" /\ pc'[p] = "done")
          => \/ result'[p].status = 404
             \/ \E r \in db : result'[p] = ImageMetadata(r)]_vars

====
